---- MODULE Spec2Model ----
(***************************************************************************)
(* juce::FontOptions and juce::FontVariation                               *)
(* (modules/juce_graphics/fonts/juce_FontOptions.h).                       *)
(*                                                                         *)
(* A FontOptions value is a record of its fourteen data members.  Every    *)
(* with* method is an operator from the receiver (and the argument) to the *)
(* returned copy; an action calls one method on the current value `cur`,   *)
(* keeps the receiver in `recv` and the call in `call`, and makes the      *)
(* returned copy the new current value, as a fluent chain                  *)
(* o.withA(..).withB(..) does.                                             *)
(*                                                                         *)
(* Modelling conventions:                                                  *)
(*  - float is modelled by the integers -MaxFloat..MaxFloat; only the      *)
(*    order and equality of floats are used by the code modelled here.     *)
(*  - jassert / jassertfalse are debug-only: the model is the build with   *)
(*    assertions compiled out, where execution continues past them.        *)
(*  - Typeface::Ptr is a record [id, name, style]; id 0 is nullptr, and    *)
(*    x->getName(), x->getStyle() read the name and style fields.          *)
(*  - std::optional<float> is a sequence of length 0 (nullopt) or 1.       *)
(*  - the constructors are defined outside this header; a constructed      *)
(*    value is the default member initialisers with the family name, the   *)
(*    style and a positive pixel height seeded.                            *)
(***************************************************************************)
EXTENDS Integers, Sequences, FiniteSets

VARIABLES cur, recv, call, remaining

vars == <<cur, recv, call, remaining>>

(***************************************************************************)
(* Bounds of the model.                                                    *)
(***************************************************************************)
\* floats are the integers -MaxFloat..MaxFloat
MaxFloat == 2
\* longest argument list given to withVariations
MaxVars == 2
\* length of the call chains explored by the specification of all mutators
MaxCalls == 1

(***************************************************************************)
(* Program constants.                                                      *)
(***************************************************************************)
\* the "unset" sentinel -1.0f of height, pointHeight and the two overrides
Unset == -1
\* float horizontalScale = 1.0f
DefaultHorizontalScale == 1

Floats == (0 - MaxFloat)..MaxFloat

\* the heights a constructor is given (positive, as withHeight asserts)
PositiveFloats == 1..MaxFloat

\* Typeface::Ptr values: nullptr and two typefaces with their own name/style
NullTypeface == [id |-> 0, name |-> "", style |-> ""]

Typefaces ==
    { [id |-> 1, name |-> "Sans", style |-> "Bold"],
      [id |-> 2, name |-> "Serif", style |-> "Italic"] }

TypefacePtrs == Typefaces \cup {NullTypeface}

\* arguments of withName and withStyle
Names == {"", "A"}

Styles == {"", "B"}

\* arguments of withFallbacks
FallbackLists == { <<>>, <<"F">>, <<"F", "G">> }

\* TypefaceMetricsKind
MetricsKinds == {"portable", "legacy"}

\* FontVariation::Tag values: 'wdth' and 'wght' as 32-bit integers
Tags == {2003072104, 2003265652}

VariationValues == {0, 1}

\* struct FontVariation { Tag tag; float value; }
FontVariation(variationTag, variationValue) ==
    [tag |-> variationTag, value |-> variationValue]

FontVariations == { FontVariation(t, v) : t \in Tags, v \in VariationValues }

SeqsUpTo(S, n) == UNION { [1..k -> S] : k \in 0..n }

\* arguments of withVariations
VariationLists == SeqsUpTo(FontVariations, MaxVars)

\* std::optional<float>
NullOpt == <<>>

MakeOptional(v) == <<v>>

Optionals == {NullOpt} \cup { MakeOptional(v) : v \in Floats }

\* std::optional::value_or
value_or(x, d) == IF x = NullOpt THEN d ELSE x[1]

(***************************************************************************)
(* The data members with their default member initialisers.                *)
(***************************************************************************)
DefaultMembers ==
    [ name |-> "",
      style |-> "",
      typeface |-> NullTypeface,
      fallbacks |-> <<>>,
      metricsKind |-> "portable",
      height |-> Unset,
      pointHeight |-> Unset,
      tracking |-> 0,
      horizontalScale |-> DefaultHorizontalScale,
      ascentOverride |-> Unset,
      descentOverride |-> Unset,
      fallbackEnabled |-> TRUE,
      underlined |-> FALSE,
      variations |-> <<>> ]

Fields == DOMAIN DefaultMembers

\* FontOptions (typefaceName, typefaceStyle, fontHeight): the constructors seed
\* the family name, the style and the pixel height
Construct(typefaceName, typefaceStyle, fontHeight) ==
    [DefaultMembers EXCEPT !.name = typefaceName,
                           !.style = typefaceStyle,
                           !.height = fontHeight]

Constructed ==
    { Construct(n, s, h) : n \in Names, s \in Styles, h \in PositiveFloats }

\* withMember (copy, &FontOptions::member, value)
withMember(copy, member, value) == [copy EXCEPT ![member] = value]

(***************************************************************************)
(* The with* methods.                                                      *)
(***************************************************************************)
\* faulty variant: the name is set whatever the typeface
withName_unguarded(self, x) == [self EXCEPT !.name = x]

withName(self, x) ==
    IF self.typeface = NullTypeface
      THEN withMember(self, "name", x)
      ELSE self

withStyle(self, x) ==
    IF self.typeface = NullTypeface
      THEN withMember(self, "style", x)
      ELSE self

\* faulty variant: a typeface is not attached to options that have a name or a style
withTypeface_rejectsNamed(self, x) ==
    IF x # NullTypeface /\ (self.name # "" \/ self.style # "")
      THEN self
      ELSE [self EXCEPT !.typeface = x,
                        !.name = IF x # NullTypeface /\ self.typeface = NullTypeface
                                   THEN x.name ELSE @,
                        !.style = IF x # NullTypeface /\ self.typeface = NullTypeface
                                    THEN x.style ELSE @]

\* faulty variant: a null argument leaves the typeface as it is
withTypeface_keepsOnNull(self, x) ==
    IF x = NullTypeface
      THEN self
      ELSE [self EXCEPT !.typeface = x,
                        !.name = IF self.typeface = NullTypeface THEN x.name ELSE @,
                        !.style = IF self.typeface = NullTypeface THEN x.style ELSE @]

withTypeface(self, x) ==
    LET result == IF x # NullTypeface
                    THEN withStyle(withName(self, x.name), x.style)
                    ELSE self
    IN  withMember(result, "typeface", x)

withFallbacks(self, x) == withMember(self, "fallbacks", x)

withFallbackEnabled(self, x) == withMember(self, "fallbackEnabled", x)

\* faulty variant: the point height is left as it was
withHeight_keepsPointHeight(self, x) == [self EXCEPT !.height = x]

withHeight(self, x) ==
    [self EXCEPT !.height = x, !.pointHeight = Unset]

\* faulty variant: the pixel height is left as it was
withPointHeight_keepsHeight(self, x) == [self EXCEPT !.pointHeight = x]

withPointHeight(self, x) ==
    [self EXCEPT !.pointHeight = x, !.height = Unset]

\* faulty variant: the copy is made of a default-constructed value
withKerningFactor_fromDefaults(self, x) == [DefaultMembers EXCEPT !.tracking = x]

withKerningFactor(self, x) == withMember(self, "tracking", x)

withHorizontalScale(self, x) == withMember(self, "horizontalScale", x)

withUnderline(self, x) == withMember(self, "underlined", x)

withMetricsKind(self, x) == withMember(self, "metricsKind", x)

withAscentOverride(self, x) ==
    withMember(self, "ascentOverride", value_or(x, Unset))

withDescentOverride(self, x) ==
    withMember(self, "descentOverride", value_or(x, Unset))

withVariations(self, x) == withMember(self, "variations", x)

\* std::find_if (vars.begin(), vars.end(), v.tag == tag): the first index
\* whose entry has the tag, or Len(vs) + 1 for vars.end()
find_if(vs, tag) ==
    LET hits == { i \in 1..Len(vs) : vs[i].tag = tag }
    IN  IF hits = {} THEN Len(vs) + 1
        ELSE CHOOSE i \in hits : \A j \in hits : i <= j

\* faulty variant: the entry is appended whether or not the tag is there
withVariation_alwaysAppends(self, tag, value) ==
    [self EXCEPT !.variations = Append(@, FontVariation(tag, value))]

\* faulty variant: an entry with the tag is removed and the new one put at the end
withVariation_movesToEnd(self, tag, value) ==
    LET vs == self.variations
        it == find_if(vs, tag)
        rest == IF it # Len(vs) + 1
                  THEN SubSeq(vs, 1, it - 1) \o SubSeq(vs, it + 1, Len(vs))
                  ELSE vs
    IN  [self EXCEPT !.variations = Append(rest, FontVariation(tag, value))]

withVariation(self, tag, value) ==
    LET vs == self.variations
        it == find_if(vs, tag)
    IN  IF it # Len(vs) + 1
          THEN [self EXCEPT !.variations[it].value = value]
          ELSE [self EXCEPT !.variations = Append(vs, FontVariation(tag, value))]

(***************************************************************************)
(* The getters.                                                            *)
(***************************************************************************)
getName(self) == self.name

getStyle(self) == self.style

getTypeface(self) == self.typeface

getHeight(self) == self.height

getPointHeight(self) == self.pointHeight

\* faulty variant: a stored 0 reads as unset
getAscentOverride_strict(self) ==
    IF self.ascentOverride > 0 THEN MakeOptional(self.ascentOverride) ELSE NullOpt

getAscentOverride(self) ==
    IF self.ascentOverride >= 0 THEN MakeOptional(self.ascentOverride) ELSE NullOpt

getDescentOverride(self) ==
    IF self.descentOverride >= 0 THEN MakeOptional(self.descentOverride) ELSE NullOpt

getVariations(self) == self.variations

(***************************************************************************)
(* Calls.  `remaining` is the number of calls the chain may still make;    *)
(* NoLimit stands for a chain of any length.                               *)
(***************************************************************************)
NoLimit == MaxCalls + 1

NoCall == [op |-> "construct", arg |-> <<>>]

\* one call of a method on the current value: the receiver is kept as it was,
\* the returned copy becomes the current value
Step(op, arg, result) ==
    /\ remaining > 0
    /\ recv' = cur
    /\ call' = [op |-> op, arg |-> arg]
    /\ cur' = result
    /\ remaining' = IF remaining = NoLimit THEN NoLimit ELSE remaining - 1

WithName == \E x \in Names : Step("withName", x, withName(cur, x))

WithStyle == \E x \in Styles : Step("withStyle", x, withStyle(cur, x))

WithTypeface ==
    \E x \in TypefacePtrs : Step("withTypeface", x, withTypeface(cur, x))

WithFallbacks ==
    \E x \in FallbackLists : Step("withFallbacks", x, withFallbacks(cur, x))

WithFallbackEnabled ==
    \E x \in BOOLEAN : Step("withFallbackEnabled", x, withFallbackEnabled(cur, x))

WithHeight == \E x \in Floats : Step("withHeight", x, withHeight(cur, x))

WithPointHeight ==
    \E x \in Floats : Step("withPointHeight", x, withPointHeight(cur, x))

WithKerningFactor ==
    \E x \in Floats : Step("withKerningFactor", x, withKerningFactor(cur, x))

WithHorizontalScale ==
    \E x \in Floats : Step("withHorizontalScale", x, withHorizontalScale(cur, x))

WithUnderline ==
    \E x \in BOOLEAN : Step("withUnderline", x, withUnderline(cur, x))

WithMetricsKind ==
    \E x \in MetricsKinds : Step("withMetricsKind", x, withMetricsKind(cur, x))

WithAscentOverride ==
    \E x \in Optionals : Step("withAscentOverride", x, withAscentOverride(cur, x))

WithDescentOverride ==
    \E x \in Optionals : Step("withDescentOverride", x, withDescentOverride(cur, x))

WithVariations ==
    \E x \in VariationLists : Step("withVariations", x, withVariations(cur, x))

\* the list is capped at MaxVars + 1 entries
WithVariation ==
    \E t \in Tags, v \in VariationValues :
        /\ \/ Len(cur.variations) <= MaxVars
           \/ find_if(cur.variations, t) # Len(cur.variations) + 1
        /\ Step("withVariation", FontVariation(t, v), withVariation(cur, t, v))

(***************************************************************************)
(* Specifications.                                                         *)
(***************************************************************************)
InitWith(n) ==
    /\ cur \in Constructed
    /\ recv = cur
    /\ call = NoCall
    /\ remaining = n

\* every mutator, on chains of MaxCalls calls
Init == InitWith(MaxCalls)

Next ==
    \/ WithName
    \/ WithStyle
    \/ WithTypeface
    \/ WithFallbacks
    \/ WithFallbackEnabled
    \/ WithHeight
    \/ WithPointHeight
    \/ WithKerningFactor
    \/ WithHorizontalScale
    \/ WithUnderline
    \/ WithMetricsKind
    \/ WithAscentOverride
    \/ WithDescentOverride
    \/ WithVariations
    \/ WithVariation

Spec == Init /\ [][Next]_vars

\* chains of any length
InitChain == InitWith(NoLimit)

\* name, style and typeface
NextFace == WithName \/ WithStyle \/ WithTypeface

SpecFace == InitChain /\ [][NextFace]_vars

\* the heights and the metrics overrides
NextMetrics ==
    \/ WithHeight
    \/ WithPointHeight
    \/ WithAscentOverride
    \/ WithDescentOverride

SpecMetrics == InitChain /\ [][NextMetrics]_vars

\* the variations list
NextVar == WithVariations \/ WithVariation

SpecVar == InitChain /\ [][NextVar]_vars

(***************************************************************************)
(* Properties of name, style and typeface (SpecFace).                      *)
(***************************************************************************)
Called(op) == call.op = op

\* the fields in which two values differ
Differing(a, b) == { f \in Fields : a[f] # b[f] }

\* C1: for every reachable receiver and every non-null typeface T, the value
\* returned by withTypeface(T) has typeface T, name T's name and style T's
\* style.
C1_TypefaceNameStyleFromHandle ==
    (Called("withTypeface") /\ call.arg # NullTypeface)
        => /\ getTypeface(cur) = call.arg
           /\ getName(cur) = call.arg.name
           /\ getStyle(cur) = call.arg.style

\* C6: when the receiver holds a non-null typeface, withName(x) and
\* withStyle(x) return a value equal to the receiver in every field.
C6_NameStyleIgnoredUnderTypeface ==
    ((Called("withName") \/ Called("withStyle")) /\ recv.typeface # NullTypeface)
        => /\ cur = recv
           /\ getName(cur) = getName(recv)
           /\ getStyle(cur) = getStyle(recv)

C6_Witness ==
    /\ Called("withName")
    /\ recv.typeface \in Typefaces
    /\ recv.name = recv.typeface.name
    /\ call.arg # recv.name
    /\ getName(cur) = recv.typeface.name

\* C7 as claimed: withTypeface(T), T non-null, on a receiver whose name or
\* style is non-empty returns a value equal to the receiver in every field.
C7_TypefaceOnNamedIsNoOp ==
    (/\ Called("withTypeface")
     /\ call.arg # NullTypeface
     /\ (recv.name # "" \/ recv.style # ""))
        => cur = recv

\* C7 as amended: withTypeface(T), T non-null, on a receiver whose name or
\* style is non-empty is not a no-op: the result holds typeface T, differs
\* from the receiver in no field other than typeface, name and style, and,
\* when the receiver held no typeface, has T's name and style.
C7_TypefaceOnNamedTakesEffect ==
    (/\ Called("withTypeface")
     /\ call.arg # NullTypeface
     /\ (recv.name # "" \/ recv.style # ""))
        => /\ getTypeface(cur) = call.arg
           /\ Differing(cur, recv) \subseteq {"typeface", "name", "style"}
           /\ recv.typeface = NullTypeface
                => /\ getName(cur) = call.arg.name
                   /\ getStyle(cur) = call.arg.style

C7_Witness ==
    /\ Called("withTypeface")
    /\ call.arg \in Typefaces
    /\ recv.typeface = NullTypeface
    /\ recv.name = "A"
    /\ recv.style = "B"
    /\ cur.typeface = call.arg
    /\ cur.name = call.arg.name
    /\ cur.style = call.arg.style

\* withTypeface(nullptr) clears the typeface and nothing else
NullTypefaceClearsOnlyTypeface ==
    (Called("withTypeface") /\ call.arg = NullTypeface)
        => /\ getTypeface(cur) = NullTypeface
           /\ Differing(cur, recv) \subseteq {"typeface"}

\* on the value withTypeface(nullptr) returned, withName and withStyle take
\* effect
NameStyleSettableAfterNull ==
    (Called("withTypeface") /\ call.arg = NullTypeface)
        => /\ call'.op = "withName"
                => (getName(cur') = call'.arg /\ getStyle(cur') = getStyle(cur))
           /\ call'.op = "withStyle"
                => (getStyle(cur') = call'.arg /\ getName(cur') = getName(cur))

\* C10: withTypeface(nullptr) returns a value with a null typeface and every
\* other field equal to the receiver's, and on that value withName(x) and
\* withStyle(x) take effect, so that
\* o.withTypeface(T).withTypeface(nullptr).withName(x).getName() = x.
C10_NullTypefaceReenablesNames ==
    []NullTypefaceClearsOnlyTypeface /\ [][NameStyleSettableAfterNull]_vars

C10_Witness ==
    /\ Called("withName")
    /\ recv.typeface = NullTypeface
    /\ recv.name \in { t.name : t \in Typefaces }
    /\ call.arg = "A"
    /\ getName(cur) = "A"

(***************************************************************************)
(* Properties of the heights and the metrics overrides (SpecMetrics).      *)
(***************************************************************************)
IsSet(v) == v >= 0

ExactlyOneHeightSet(o) ==
    \/ IsSet(o.height) /\ o.pointHeight = Unset
    \/ IsSet(o.pointHeight) /\ o.height = Unset

HeightCall == Called("withHeight") \/ Called("withPointHeight")

\* C2 as claimed: in every reachable value exactly one of height and
\* pointHeight is set (non-negative) and the other holds the sentinel -1.
C2_ExactlyOneHeightSet == ExactlyOneHeightSet(cur)

\* C2 as amended: in every reachable value at least one of height and
\* pointHeight holds the sentinel -1, so at most one is set; exactly one is set
\* in the value withHeight(x) or withPointHeight(x) returns for x >= 0, and
\* the other mutators keep it so.  (A negative x, which only the debug
\* assertion rejects, leaves neither set.)
C2_AtMostOneHeightSet ==
    /\ cur.height = Unset \/ cur.pointHeight = Unset
    /\ (HeightCall /\ call.arg >= 0) => ExactlyOneHeightSet(cur)
    /\ (~HeightCall /\ ExactlyOneHeightSet(recv)) => ExactlyOneHeightSet(cur)
    /\ (HeightCall /\ call.arg < 0) => ~IsSet(cur.height) /\ ~IsSet(cur.pointHeight)

C2_Witness ==
    /\ Called("withPointHeight")
    /\ call.arg > 0
    /\ IsSet(recv.height)
    /\ cur.height = Unset
    /\ cur.pointHeight = call.arg

\* C8: for any receiver and any positive X, withHeight(X) yields
\* getHeight() = X and getPointHeight() = -1, and withPointHeight(X) yields
\* getPointHeight() = X and getHeight() = -1.
C8_LastHeightCallWins ==
    /\ (Called("withHeight") /\ call.arg > 0)
          => (getHeight(cur) = call.arg /\ getPointHeight(cur) = Unset)
    /\ (Called("withPointHeight") /\ call.arg > 0)
          => (getPointHeight(cur) = call.arg /\ getHeight(cur) = Unset)

C8_Witness ==
    /\ Called("withHeight")
    /\ call.arg > 0
    /\ recv.pointHeight > 0
    /\ recv.pointHeight # call.arg
    /\ getHeight(cur) = call.arg
    /\ getPointHeight(cur) = Unset

ReadBack(x) == IF x # NullOpt /\ x[1] >= 0 THEN x ELSE NullOpt

Entries(vs, tag) == { i \in 1..Len(vs) : vs[i].tag = tag }

AtMostOnePerTag(vs) == \A t \in Tags : Cardinality(Entries(vs, t)) <= 1

\* C3 as claimed: in every reachable value the variations list has at most
\* one entry per distinct axis tag.
C3_AtMostOneEntryPerTag == AtMostOnePerTag(getVariations(cur))

\* C3 as amended: withVariation never adds a second entry for a tag: on a
\* receiver whose list has at most one entry per tag so has the result, and
\* for every receiver the tag's entries are as many as before, or one if there
\* were none.  withVariations stores its argument list as given, duplicate
\* tags included.
C3_WithVariationAddsNoDuplicate ==
    /\ Called("withVariation")
          => /\ AtMostOnePerTag(recv.variations) => AtMostOnePerTag(cur.variations)
             /\ \A t \in Tags :
                  Cardinality(Entries(cur.variations, t)) =
                    IF t = call.arg.tag /\ Entries(recv.variations, t) = {}
                      THEN 1
                      ELSE Cardinality(Entries(recv.variations, t))
    /\ Called("withVariations") => getVariations(cur) = call.arg

C3_Witness ==
    /\ Called("withVariation")
    /\ Len(recv.variations) = 2
    /\ AtMostOnePerTag(recv.variations)
    /\ recv.variations[2].tag = call.arg.tag
    /\ recv.variations[2].value # call.arg.value
    /\ Len(cur.variations) = 2
    /\ AtMostOnePerTag(cur.variations)

\* withVariation(tag, value) is an upsert: the first entry with the tag, if
\* there is one, gets the value where it stands and the list is otherwise the
\* same; else (tag, value) is appended
Upsert ==
    Called("withVariation")
        => LET old == recv.variations
               new == cur.variations
               t == call.arg.tag
               hits == Entries(old, t)
           IN  IF hits # {}
                 THEN /\ Len(new) = Len(old)
                      /\ \E i \in hits :
                           /\ \A j \in hits : i <= j
                           /\ new[i] = FontVariation(t, call.arg.value)
                           /\ \A k \in 1..Len(old) : k # i => new[k] = old[k]
                 ELSE new = Append(old, FontVariation(t, call.arg.value))

SameTagAgain ==
    /\ Called("withVariation")
    /\ call'.op = "withVariation"
    /\ call'.arg.tag = call.arg.tag

\* after withVariation(tag, v1) and then withVariation(tag, v2) there is
\* exactly one entry for tag, it has value v2 and stands where the first call
\* left it
OneEntryAfterSecond ==
    LET t == call.arg.tag
        p == find_if(cur.variations, t)
    IN  /\ Entries(cur'.variations, t) = {p}
        /\ cur'.variations[p].value = call'.arg.value

\* C4 as claimed: withVariation is an upsert, and consequently
\* withVariation(tag, v1) followed by withVariation(tag, v2) yields exactly
\* one entry for tag, with value v2, at the position the first call gave it.
C4_UpsertOneEntry ==
    []Upsert /\ [][SameTagAgain => OneEntryAfterSecond]_vars

\* C4 as amended: withVariation is an upsert of the first entry with the tag,
\* and withVariation(tag, v1) followed by withVariation(tag, v2) yields
\* exactly one entry for tag, with value v2, at the position the first call
\* gave it, provided the receiver of the first call held at most one entry for
\* tag; further entries with the tag (a list given to withVariations may hold
\* them) stay as they are.
C4_UpsertFirstEntry ==
    /\ []Upsert
    /\ [][(SameTagAgain /\ Cardinality(Entries(recv.variations, call.arg.tag)) <= 1)
            => OneEntryAfterSecond]_vars
    /\ [][SameTagAgain
            => LET p == find_if(cur.variations, call.arg.tag)
               IN  /\ Len(cur'.variations) = Len(cur.variations)
                   /\ cur'.variations[p] = call'.arg
                   /\ \A k \in 1..Len(cur.variations) :
                        k # p => cur'.variations[k] = cur.variations[k]]_vars

C4_Witness ==
    /\ Called("withVariation")
    /\ Len(recv.variations) = 2
    /\ AtMostOnePerTag(recv.variations)
    /\ recv.variations[1].tag = call.arg.tag
    /\ recv.variations[1].value # call.arg.value
    /\ cur.variations = <<call.arg, recv.variations[2]>>

(***************************************************************************)
(* The frame of every mutator (Spec).                                      *)
(***************************************************************************)
\* the fields a call may change: its target field and the linked one
MayChange ==
    CASE Called("withName") -> {"name"}
      [] Called("withStyle") -> {"style"}
      [] Called("withTypeface") ->
            IF call.arg # NullTypeface
              THEN {"typeface", "name", "style"}
              ELSE {"typeface"}
      [] Called("withFallbacks") -> {"fallbacks"}
      [] Called("withFallbackEnabled") -> {"fallbackEnabled"}
      [] Called("withHeight") -> {"height", "pointHeight"}
      [] Called("withPointHeight") -> {"pointHeight", "height"}
      [] Called("withKerningFactor") -> {"tracking"}
      [] Called("withHorizontalScale") -> {"horizontalScale"}
      [] Called("withUnderline") -> {"underlined"}
      [] Called("withMetricsKind") -> {"metricsKind"}
      [] Called("withAscentOverride") -> {"ascentOverride"}
      [] Called("withDescentOverride") -> {"descentOverride"}
      [] Called("withVariations") -> {"variations"}
      [] Called("withVariation") -> {"variations"}
      [] OTHER -> {}

\* C5: the value a with* mutator returns differs from its receiver only in
\* the mutator's target field and its linked field (withHeight: pointHeight;
\* withPointHeight: height; withTypeface with a non-null handle: name and
\* style).
C5_MutatorFrame == Differing(cur, recv) \subseteq MayChange

C5_Witness ==
    /\ Called("withPointHeight")
    /\ recv.name = "A"
    /\ recv.style = "B"
    /\ IsSet(recv.height)
    /\ call.arg > 0
    /\ Differing(cur, recv) = {"pointHeight", "height"}

====
